---- MODULE Spec2Model ----
(***************************************************************************)
(* N-dimensional Minesweeper (src/mines.py): board construction            *)
(* (new_game_nd), neighbour enumeration (get_neighors_nd), nested-list      *)
(* access (get_val / set_val / update_pos) and the recursive dig (dig_nd). *)
(*                                                                         *)
(* A game is the dictionary the code builds: dimensions, board, hidden,    *)
(* state, squares_left.  board and hidden are nested lists, modelled as    *)
(* nested sequences; Python positions are 0-based and a negative position  *)
(* counts from the end of the list, which PyValid / PyAt reproduce.        *)
(*                                                                         *)
(* dig_nd is modelled twice from the same lines.  Spec takes a whole call  *)
(* dig_nd(game, coordinates) as one step (operator dig_nd).  SpecSteps     *)
(* unfolds the recursion on an explicit call stack, one frame per          *)
(* invocation that reached the neighbour loop, holding the neighbours not  *)
(* yet visited: the neighbour set is a Python set, so the loop may visit   *)
(* it in any order, and SpecSteps takes every order.  SpecAny is Spec, on *)
(* the smaller boards, with a caller that also passes coordinates outside  *)
(* the board.                                                              *)
(***************************************************************************)
EXTENDS Integers, Sequences, FiniteSets, TLC

\* ---------------------------------------------------------------- bounds
MaxAxes   == 2   \* axes of the boards Init draws
MaxCells  == 6   \* cells of the boards Init draws
MaxBombs  == 3   \* bombs on them
StepCells == 4   \* cells of the boards SpecSteps starts from

\* The bomb marker "." of the board (an integer here, so that it can share
\* a list with the neighbour counts; no count is negative).
Bomb == -1

VARIABLES
    game,         \* the game dictionary
    bombs,        \* the bombs argument new_game_nd was called with
    stack,        \* frames of the dig_nd invocations inside their loop
    pc,           \* "fresh" | "running" | "returned" | "raised"
    ret,          \* value returned by the last finished top-level dig_nd
    coordinates,  \* argument of the last top-level dig_nd
    before,       \* the game as it was when that call was made
    invocations,  \* dig_nd invocations made by that call so far
    passes        \* those of them that passed both guards (lines 396-399)

vars == <<game, bombs, stack, pc, ret, coordinates, before, invocations, passes>>

\* ------------------------------------------------------- Python lists
PyValid(list, i) == -Len(list) <= i /\ i < Len(list)

PyAt(list, i) == IF i >= 0 THEN list[i + 1] ELSE list[Len(list) + i + 1]

PySet(list, i, v) ==
    [list EXCEPT ![IF i >= 0 THEN i + 1 ELSE Len(list) + i + 1] = v]

RECURSIVE IndexError(_, _)
\* get_val / set_val / update_pos raise IndexError on board at coords
IndexError(board, coords) ==
    IF ~PyValid(board, coords[1]) THEN TRUE
    ELSE IF Len(coords) = 1 THEN FALSE
    ELSE IndexError(PyAt(board, coords[1]), Tail(coords))

RECURSIVE get_val(_, _)
get_val(board, coords) ==
    IF Len(coords) = 1 THEN PyAt(board, coords[1])
    ELSE get_val(PyAt(board, coords[1]), Tail(coords))

RECURSIVE set_val(_, _, _)
set_val(board, coords, val) ==
    IF Len(coords) = 1 THEN PySet(board, coords[1], val)
    ELSE PySet(board, coords[1],
               set_val(PyAt(board, coords[1]), Tail(coords), val))

RECURSIVE update_pos_Assigns(_, _, _)
\* update_pos with = for += : the value is stored, not added
update_pos_Assigns(board, coords, val) ==
    IF Len(coords) = 1
    THEN PySet(board, coords[1], val)
    ELSE PySet(board, coords[1],
               update_pos_Assigns(PyAt(board, coords[1]), Tail(coords), val))

RECURSIVE update_pos(_, _, _)
update_pos(board, coords, val) ==
    IF Len(coords) = 1
    THEN PySet(board, coords[1], PyAt(board, coords[1]) + val)
    ELSE PySet(board, coords[1],
               update_pos(PyAt(board, coords[1]), Tail(coords), val))

\* ------------------------------------------------------- neighbours
\* AxisNeighbors with >= 2 for >= 1: position 0 is never a neighbour
AxisNeighbors_SkipsFirst(dim, x) ==
    (IF x >= 2 THEN {x - 1} ELSE {})
        \cup (IF x <= dim - 2 THEN {x + 1} ELSE {})
        \cup {x}

\* One axis of get_neighors_nd: the positions coord-1, coord+1, coord kept
\* by the two comparisons of lines 282-286 (and 291-295).
AxisNeighbors(dim, x) ==
    (IF x >= 1 THEN {x - 1} ELSE {})
        \cup (IF x <= dim - 2 THEN {x + 1} ELSE {})
        \cup {x}

RECURSIVE NeighborsFrom(_, _, _, _)
\* the loop of lines 288-297, from axis index (1-based here) onwards
NeighborsFrom(dimensions, location, index, neighbors) ==
    IF index > Len(location) THEN neighbors
    ELSE NeighborsFrom(dimensions, location, index + 1,
            {Append(n, x) : n \in neighbors,
                            x \in AxisNeighbors(dimensions[index], location[index])})

get_neighors_nd(dimensions, location) ==
    NeighborsFrom(dimensions, location, 2,
                  {<<x>> : x \in AxisNeighbors(dimensions[1], location[1])})

\* ------------------------------------------------------- construction
RECURSIVE Product(_)
Product(dimensions) ==
    IF dimensions = <<>> THEN 1 ELSE dimensions[1] * Product(Tail(dimensions))

RECURSIVE PlaceBombs(_, _)
\* for bomb in bombs: board[bomb[0]] = "."
PlaceBombs(board, bs) ==
    IF bs = {} THEN board
    ELSE LET bomb == CHOOSE b \in bs : TRUE
         IN  PlaceBombs(PySet(board, bomb[1], Bomb), bs \ {bomb})

RECURSIVE create_game_0(_, _)
create_game_0(dimensions, bs) ==
    LET sub(i) == create_game_0(Tail(dimensions),
                                {Tail(b) : b \in {c \in bs : c[1] = i}})
    IN  [dimensions   |-> dimensions,
         board        |-> IF Len(dimensions) = 1
                          THEN PlaceBombs([i \in 1..dimensions[1] |-> 0], bs)
                          ELSE [i \in 1..dimensions[1] |-> sub(i - 1).board],
         hidden       |-> IF Len(dimensions) = 1
                          THEN [i \in 1..dimensions[1] |-> TRUE]
                          ELSE [i \in 1..dimensions[1] |-> sub(i - 1).hidden],
         state        |-> "ongoing",
         squares_left |-> Product(dimensions) - Cardinality(bs)]

RECURSIVE AddToNeighbors(_, _, _)
\* the inner loop of update_bombs_nd (lines 271-273)
AddToNeighbors(board, neighbors, bs) ==
    IF neighbors = {} THEN board
    ELSE LET neighbor == CHOOSE n \in neighbors : TRUE
         IN  AddToNeighbors(IF neighbor \notin bs
                            THEN update_pos(board, neighbor, 1)
                            ELSE board,
                            neighbors \ {neighbor}, bs)

RECURSIVE UpdateFrom(_, _, _, _)
UpdateFrom(board, todo, bs, dimensions) ==
    IF todo = {} THEN board
    ELSE LET bomb == CHOOSE b \in todo : TRUE
         IN  UpdateFrom(AddToNeighbors(board, get_neighors_nd(dimensions, bomb), bs),
                        todo \ {bomb}, bs, dimensions)

update_bombs_nd(board, bs, dimensions) == UpdateFrom(board, bs, bs, dimensions)

new_game_nd(dimensions, bs) ==
    LET g == create_game_0(dimensions, bs)
    IN  [g EXCEPT !.board = update_bombs_nd(g.board, bs, dimensions)]

\* ------------------------------------------------------- inputs
RECURSIVE Tuples(_, _)
\* the tuples of length n over the set S
Tuples(n, S) ==
    IF n = 0 THEN {<<>>}
    ELSE {Append(t, x) : t \in Tuples(n - 1, S), x \in S}

RECURSIVE Coordinates(_, _)
\* the coordinates whose position on axis i is drawn from range[i]
Coordinates(n, range) ==
    IF n = 0 THEN {<<>>}
    ELSE {Append(t, x) : t \in Coordinates(n - 1, range), x \in range[n]}

\* the coordinates of the cells of a board
Cells(dimensions) ==
    Coordinates(Len(dimensions),
                [i \in 1..Len(dimensions) |-> 0..(dimensions[i] - 1)])

\* every position a Python list of that length accepts (negative ones count
\* from its end), and one more at each end
AnyCoordinates(dimensions) ==
    Coordinates(Len(dimensions),
                [i \in 1..Len(dimensions) |-> -(dimensions[i] + 1)..dimensions[i]])

Dimensions(cells) ==
    {d \in UNION {Tuples(n, 1..cells) : n \in 1..MaxAxes} : Product(d) <= cells}

BombLists(dimensions) ==
    {bs \in SUBSET Cells(dimensions) : Cardinality(bs) <= MaxBombs}

\* the games of the doctests of new_game_2d and new_game_nd
DoctestGames ==
    {[dimensions |-> <<2, 4>>,    bombs |-> {<<0, 0>>, <<1, 0>>, <<1, 1>>}],
     [dimensions |-> <<2, 4, 2>>, bombs |-> {<<0, 0, 1>>, <<1, 0, 0>>, <<1, 1, 1>>}]}

\* ------------------------------------------------------- dig_nd
\* GameOver that forgets "victory"
GameOver_DefeatOnly(g) == g.state = "defeat"

\* line 396: the game is over
GameOver(g) == g.state = "defeat" \/ g.state = "victory"

\* AlreadyUncovered that is never true: the hidden flag is not consulted
AlreadyUncovered_Never(g, c) == FALSE

\* line 398: the square at c is already uncovered
AlreadyUncovered(g, c) == ~get_val(g.hidden, c)

\* SquaresLeftAfter without the test for a bomb
SquaresLeftAfter_Always(g, v) == g.squares_left - 1

\* lines 402-403: squares_left once a square holding v is uncovered
SquaresLeftAfter(g, v) ==
    IF v # Bomb THEN g.squares_left - 1 ELSE g.squares_left

\* Victory one square early
Victory_OneLeft(left) == left <= 1

\* line 410: no safe square is left
Victory(left) == left = 0

\* Cascades also from a square that holds a 1
Cascades_FromOne(v) == v = 0 \/ v = 1

\* line 414: the uncovered square holds a 0, so its neighbours are dug
Cascades(v) == v = 0

\* One invocation of dig_nd(g, c) up to its neighbour loop (lines 396-415):
\* what it does to the game, and whether it returns at once, raises, or
\* enters the loop over the neighbours of c.
dig_enter(g, c) ==
    IF GameOver(g)
    THEN [game |-> g, kind |-> "return", value |-> 0, passed |-> FALSE, neighbors |-> {}]
    ELSE IF IndexError(g.hidden, c)
    THEN [game |-> g, kind |-> "raise", value |-> 0, passed |-> FALSE, neighbors |-> {}]
    ELSE IF AlreadyUncovered(g, c)
    THEN [game |-> g, kind |-> "return", value |-> 0, passed |-> FALSE, neighbors |-> {}]
    ELSE
      LET v    == get_val(g.board, c)
          left == SquaresLeftAfter(g, v)
          g1   == [g EXCEPT !.hidden = set_val(g.hidden, c, FALSE),
                            !.squares_left = left]
      IN  IF v = Bomb
          THEN [game |-> [g1 EXCEPT !.state = "defeat"], kind |-> "return",
                value |-> 1, passed |-> TRUE, neighbors |-> {}]
          ELSE IF Victory(left)
          THEN [game |-> [g1 EXCEPT !.state = "victory"], kind |-> "return",
                value |-> 1, passed |-> TRUE, neighbors |-> {}]
          ELSE IF Cascades(v)
          THEN [game |-> g1, kind |-> "loop", value |-> 1, passed |-> TRUE,
                neighbors |-> get_neighors_nd(g.dimensions, c)]
          ELSE [game |-> g1, kind |-> "return", value |-> 1, passed |-> TRUE,
                neighbors |-> {}]

RECURSIVE dig_nd(_, _)
RECURSIVE dig_loop(_, _, _)
\* dig_loop that counts the neighbours visited, not the squares they revealed
dig_loop_CountsVisits(g, neighbors, revealed) ==
    IF neighbors = {} THEN [game |-> g, value |-> revealed, raised |-> FALSE]
    ELSE LET neighbor == CHOOSE n \in neighbors : TRUE
             r        == dig_nd(g, neighbor)
         IN  IF r.raised THEN [game |-> r.game, value |-> 0, raised |-> TRUE]
             ELSE dig_loop(r.game, neighbors \ {neighbor}, revealed + 1)

\* the whole call dig_nd(g, c): the game it leaves, the value it returns,
\* and whether it ends in an IndexError instead
dig_nd(g, c) ==
    LET r == dig_enter(g, c)
    IN  IF r.kind = "loop" THEN dig_loop(r.game, r.neighbors, r.value)
        ELSE [game |-> r.game, value |-> r.value, raised |-> r.kind = "raise"]

\* for neighbor in neighbors: revealed += dig_nd(game, neighbor)
dig_loop(g, neighbors, revealed) ==
    IF neighbors = {} THEN [game |-> g, value |-> revealed, raised |-> FALSE]
    ELSE LET neighbor == CHOOSE n \in neighbors : TRUE
             r        == dig_nd(g, neighbor)
         IN  IF r.raised THEN [game |-> r.game, value |-> 0, raised |-> TRUE]
             ELSE dig_loop(r.game, neighbors \ {neighbor}, revealed + r.value)

\* A caller's dig_nd(game, c), from call to return.
DigAt(c) ==
    /\ stack = <<>>
    /\ \E r \in {dig_nd(game, c)} :
           /\ game' = r.game
           /\ ret' = r.value
           /\ pc' = IF r.raised THEN "raised" ELSE "returned"
    /\ coordinates' = c
    /\ before' = game
    /\ UNCHANGED <<bombs, stack, invocations, passes>>

Dig == \E c \in Cells(game.dimensions) : DigAt(c)

DigAny == \E c \in AnyCoordinates(game.dimensions) : DigAt(c)

\* ------------------------------------------------------- dig_nd, unfolded
Frame(r) == [neighbors |-> r.neighbors, revealed |-> r.value]

Top == stack[Len(stack)]

\* A caller's dig_nd(game, c), up to the loop or to its return.
Call ==
    /\ stack = <<>>
    /\ \E c \in Cells(game.dimensions) :
         LET r == dig_enter(game, c)
         IN  /\ game' = r.game
             /\ stack' = IF r.kind = "loop" THEN <<Frame(r)>> ELSE <<>>
             /\ pc' = CASE r.kind = "loop"   -> "running"
                        [] r.kind = "return" -> "returned"
                        [] r.kind = "raise"  -> "raised"
             /\ ret' = IF r.kind = "return" THEN r.value ELSE 0
             /\ passes' = IF r.passed THEN 1 ELSE 0
             /\ coordinates' = c
    /\ before' = game
    /\ invocations' = 1
    /\ UNCHANGED bombs

\* One iteration of the loop of lines 416-417 in the innermost invocation:
\* the recursive dig_nd(game, neighbor), up to its own loop or its return.
Visit ==
    /\ stack # <<>>
    /\ \E neighbor \in Top.neighbors :
         LET r    == dig_enter(game, neighbor)
             rest == [Top EXCEPT !.neighbors = @ \ {neighbor}]
             n    == Len(stack)
         IN  /\ game' = r.game
             /\ stack' = CASE r.kind = "return" ->
                               [stack EXCEPT ![n] = [rest EXCEPT !.revealed = @ + r.value]]
                            [] r.kind = "loop" ->
                               Append([stack EXCEPT ![n] = rest], Frame(r))
                            [] r.kind = "raise" -> <<>>
             /\ pc' = IF r.kind = "raise" THEN "raised" ELSE pc
             /\ passes' = IF r.passed THEN passes + 1 ELSE passes
    /\ invocations' = invocations + 1
    /\ UNCHANGED <<bombs, ret, coordinates, before>>

\* The loop of the innermost invocation is over: return revealed (line 419).
Return ==
    /\ stack # <<>>
    /\ Top.neighbors = {}
    /\ LET n == Len(stack)
       IN  IF n = 1
           THEN /\ stack' = <<>>
                /\ pc' = "returned"
                /\ ret' = Top.revealed
           ELSE /\ stack' = [SubSeq(stack, 1, n - 1) EXCEPT
                                ![n - 1].revealed = @ + Top.revealed]
                /\ UNCHANGED <<pc, ret>>
    /\ UNCHANGED <<game, bombs, coordinates, before, invocations, passes>>

\* ------------------------------------------------------- specifications
NewGame(dimensions, bs) ==
    /\ game = new_game_nd(dimensions, bs)
    /\ bombs = bs
    /\ stack = <<>>
    /\ pc = "fresh"
    /\ ret = 0
    /\ coordinates = <<>>
    /\ before = game
    /\ invocations = 0
    /\ passes = 0

Init ==
    \/ \E dimensions \in Dimensions(MaxCells) :
         \E bs \in BombLists(dimensions) : NewGame(dimensions, bs)
    \/ \E g \in DoctestGames : NewGame(g.dimensions, g.bombs)

Next == Dig

Spec == Init /\ [][Next]_vars

\* the same program with a caller that passes any coordinates
NextAny == DigAny

\* the games of the smaller boards
InitSteps ==
    \E dimensions \in Dimensions(StepCells) :
       \E bs \in BombLists(dimensions) : NewGame(dimensions, bs)

SpecAny == InitSteps /\ [][NextAny]_vars

\* the recursion unfolded, the neighbours visited in any order

NextSteps == Call \/ Visit \/ Return

SpecSteps == InitSteps /\ [][NextSteps]_vars /\ WF_vars(Visit \/ Return)

\* ------------------------------------------------------- properties
AllCells == Cells(game.dimensions)

\* the safe (non-bomb) squares of g that are still hidden
HiddenSafe(g) == {c \in AllCells : c \notin bombs /\ get_val(g.hidden, c)}

\* the squares the last top-level dig_nd uncovered
Uncovered ==
    {c \in AllCells : get_val(before.hidden, c) /\ ~get_val(game.hidden, c)}

BombRevealed == \E c \in bombs : ~get_val(game.hidden, c)

Abs(x) == IF x < 0 THEN -x ELSE x

\* the bombs among the geometric neighbours of c: the squares other than c
\* that differ from it by at most 1 on every axis
AdjacentBombs(c) ==
    {b \in bombs : b # c /\ \A i \in 1..Len(c) : Abs(b[i] - c[i]) <= 1}

C2_NoOpDig ==
    (pc # "fresh" /\ (before.state # "ongoing"
                      \/ ~get_val(before.hidden, coordinates)))
        => (pc = "returned" /\ ret = 0 /\ game = before)

\* a dig of a still hidden square after the game was won
C2_Witness ==
    /\ pc = "returned"
    /\ before.state = "victory"
    /\ get_val(before.hidden, coordinates)
    /\ ret = 0

DoctestGame2d == new_game_nd(<<2, 4>>, {<<0, 0>>, <<1, 0>>, <<1, 1>>})

\* the last dig was dig_nd(g, c), and it returned
Dug(g, c) ==
    /\ pc = "returned"
    /\ before.dimensions = g.dimensions
    /\ before = g
    /\ coordinates = c

\* C4 as claimed: on the new 2 x 4 game with bombs (0,0), (1,0), (1,1), one
\* dig at (0,3) returns 4 and leaves state "victory" and squares_left 0.
C4_AsClaimed ==
    Dug(DoctestGame2d, <<0, 3>>) =>
        (ret = 4 /\ game.state = "victory" /\ game.squares_left = 0)

\* C4, amended: that game has board [['.',3,1,0],['.','.',1,0]], squares_left
\* 5, state "ongoing" and every square hidden; one dig at (0,3) returns 4
\* and leaves state "ongoing" and squares_left 1, the square (0,1) still
\* hidden.  The dig at (0,3) returns 4 and leaves state "victory" and
\* squares_left 0 when (0,1) was uncovered before it, the doctest's game.
C4_Doctest ==
    /\ (pc = "fresh" /\ game.dimensions = <<2, 4>>
                     /\ bombs = {<<0, 0>>, <<1, 0>>, <<1, 1>>}) =>
          /\ game.board = <<<<Bomb, 3, 1, 0>>, <<Bomb, Bomb, 1, 0>>>>
          /\ game.hidden = <<<<TRUE, TRUE, TRUE, TRUE>>, <<TRUE, TRUE, TRUE, TRUE>>>>
          /\ game.squares_left = 5
          /\ game.state = "ongoing"
          /\ game = DoctestGame2d
    /\ Dug(DoctestGame2d, <<0, 3>>) =>
          /\ ret = 4
          /\ game.state = "ongoing"
          /\ game.squares_left = 1
          /\ game.hidden = <<<<TRUE, TRUE, FALSE, FALSE>>, <<TRUE, TRUE, FALSE, FALSE>>>>
    /\ Dug([DoctestGame2d EXCEPT
               !.hidden = <<<<TRUE, FALSE, TRUE, TRUE>>, <<TRUE, TRUE, TRUE, TRUE>>>>,
               !.squares_left = 4], <<0, 3>>) =>
          /\ ret = 4
          /\ game.state = "victory"
          /\ game.squares_left = 0
          /\ game.hidden = <<<<TRUE, FALSE, FALSE, FALSE>>, <<TRUE, TRUE, FALSE, FALSE>>>>

\* the dig at (0,3) on the new game has returned
C4_Witness == Dug(DoctestGame2d, <<0, 3>>)

\* C5: on every board new_game_nd builds from distinct in-range bombs, a
\* bomb square holds the bomb marker and every other square holds the number
\* of bombs among its geometric neighbours.
C5_BoardCounts ==
    pc = "fresh" =>
        \A c \in AllCells :
            get_val(game.board, c) =
                IF c \in bombs THEN Bomb ELSE Cardinality(AdjacentBombs(c))

\* the board of the new_game_nd doctest, three axes, as its docstring prints it
C5_Witness ==
    /\ pc = "fresh"
    /\ game.dimensions = <<2, 4, 2>>
    /\ game.board = <<<<<<3, Bomb>>, <<3, 3>>, <<1, 1>>, <<0, 0>>>>,
                      <<<<Bomb, 3>>, <<3, Bomb>>, <<1, 1>>, <<0, 0>>>>>>
    /\ game.squares_left = 13

\* C6: a dig whose coordinates have a position outside [0, dim - 1] on some
\* axis (negative ones included) ends in an IndexError, and the game is as
\* it was before the call.
C6_OutOfRangeFails ==
    (pc # "fresh" /\ coordinates \notin AllCells)
        => (pc = "raised" /\ game = before)

RECURSIVE Power(_, _)
Power(b, n) == IF n = 0 THEN 1 ELSE b * Power(b, n - 1)

\* C9: every dig terminates.  The hidden flag is the visited set: within one
\* call each invocation that passes the guards uncovers a square no other
\* one did, so there are at most as many of them as the board has squares,
\* the recursion is never deeper than that, and the invocations in all are
\* at most one per neighbour (the square itself included) of each of them.
C9_Terminates ==
    /\ [](/\ passes = Cardinality(Uncovered)
          /\ passes <= Product(game.dimensions)
          /\ Len(stack) <= passes
          /\ invocations <= 1 + passes * Power(3, Len(game.dimensions)))
    /\ (pc = "running" ~> pc = "returned")

\* a dig has returned whose loops also visited squares already uncovered
C9_Witness ==
    /\ pc = "returned"
    /\ passes >= 3
    /\ invocations > passes + 1

====
